---- MODULE Spec2Model ----
(***************************************************************************)
(* A model of MUCBot (mucbot.py): the command dispatcher `message`, the    *)
(* two command registries, the handlers and the vote session               *)
(* (_vote_subject, _votes_up, _votes_down).                                *)
(*                                                                         *)
(* Text is modelled as a sequence of atoms.  An atom is one blank          *)
(* character (" " or "\t"), the prefix character "!", or a maximal run of  *)
(* other characters (a word).  The string operations the code uses         *)
(* (startswith, strip, split(' '), slicing, ' '.join) are defined on these *)
(* sequences as Python defines them on strings.                            *)
(***************************************************************************)
EXTENDS Integers, Sequences, FiniteSets, TLC

\* ------------------------------------------------------------------ bounds
NumNicks == 2
MaxArgs == 2

\* --------------------------------------------------------------- constants
CMD_PREFIX == "!"
NO_VOTINGS_MESSAGE == "No votings at the moment"

\* Python's None for an optional text: the empty tuple; Some(t) wraps a text.
None == <<>>
Some(t) == <<t>>

Blanks == {" ", "\t"}

\* --------------------------------------------------------- string helpers
\* str.startswith(prefix) for the one-character prefix.
StartsWith(body, prefix) == Len(body) > 0 /\ body[1] = prefix

RECURSIVE LStrip(_)
LStrip(s) == IF s # <<>> /\ Head(s) \in Blanks THEN LStrip(Tail(s)) ELSE s

RECURSIVE RStrip(_)
RStrip(s) ==
    IF s # <<>> /\ s[Len(s)] \in Blanks THEN RStrip(SubSeq(s, 1, Len(s) - 1)) ELSE s

\* str.strip(): blanks removed at both ends.
Strip(s) == RStrip(LStrip(s))

\* str.split(' '): a new token starts at every single space; tokens may be
\* empty, and a tab does not separate.
RECURSIVE SplitSpace(_)
SplitSpace(s) ==
    IF \A i \in 1..Len(s) : s[i] # " "
    THEN <<s>>
    ELSE LET i == CHOOSE k \in 1..Len(s) :
                      s[k] = " " /\ \A j \in 1..(k - 1) : s[j] # " "
         IN  <<SubSeq(s, 1, i - 1)>> \o SplitSpace(SubSeq(s, i + 1, Len(s)))

\* s[n:] of Python: the text without its first n characters.
DropFirst(s, n) == SubSeq(s, n + 1, Len(s))

\* ' '.join(args)
RECURSIVE Join(_)
Join(args) ==
    IF args = <<>> THEN <<>>
    ELSE IF Len(args) = 1 THEN args[1]
    ELSE args[1] \o <<" ">> \o Join(Tail(args))

\* Python truthiness of an optional text: None and '' are false.
Truthy(v) == v # None /\ v[1] # <<>>

\* ----------------------------------------------------------- registries
\* self._cmds and self._muc_cmds: command name -> handler.
cmds ==
    [help |-> "_help", chuck |-> "_chuck_norris", surl |-> "_shorten_url",
     wiki |-> "_wikipedia", taunt |-> "_taunt"]

muc_cmds ==
    [help |-> "_help", chuck |-> "_chuck_norris", surl |-> "_shorten_url",
     vstart |-> "_vote_start", vup |-> "_vote_up", vdown |-> "_vote_down",
     vstat |-> "_vote_stat", vend |-> "_vote_end", slap |-> "_slap",
     meal |-> "_meal", hug |-> "_hug", kiss |-> "_kiss",
     wiki |-> "_wikipedia", taunt |-> "_taunt"]

\* A lookup by the first word of the name alone.
InRegistryFirstWord(cmd, reg) == cmd # <<>> /\ cmd[1] \in DOMAIN reg

\* `cmd in cmds` for a parsed command text: the text is one word that is a key.
InRegistry(cmd, reg) == Len(cmd) = 1 /\ cmd[1] \in DOMAIN reg

\* The registry message() and _help() select by message type; for any other
\* type the local variable stays unbound.
DirectTypes == {"normal", "chat"}
GroupType == "groupchat"
Bound(msg_type) == msg_type \in DirectTypes \/ msg_type = GroupType
\* One registry for every message type.
RegistryOfRoom(msg_type) == muc_cmds

RegistryOf(msg_type) == IF msg_type \in DirectTypes THEN cmds ELSE muc_cmds

\* ------------------------------------------------------------- replies
\* A handler's return value: a text built from a format string and its
\* arguments, or None.
Text(fmt, fargs) == [text |-> fmt, args |-> fargs]
NoValue == [text |-> "None", args |-> <<>>]

\* What a handler call leaves behind: the vote session, the value returned,
\* the exception raised ("" when it returns) and the HTTP requests it made.
Ret(subject, up, down, resp) ==
    [subject |-> subject, up |-> up, down |-> down, resp |-> resp, raised |-> "",
     http |-> <<>>]
Raise(subject, up, down, exc) ==
    [subject |-> subject, up |-> up, down |-> down, resp |-> NoValue, raised |-> exc,
     http |-> <<>>]

\* The same result, reached after a request to url.
After(url, r) == [r EXCEPT !.http = <<url>> \o @]

\* ------------------------------------------------------ the vote session
\* _vote_start with its two checks in the other order.
_vote_start_args_first(subject, up, down, args) ==
    IF args = <<>>
    THEN Ret(subject, up, down, Text("No subject given. Use vstart <subject>", <<>>))
    ELSE IF Truthy(subject)
    THEN Ret(subject, up, down, Text("A vote is already running", <<>>))
    ELSE Ret(Some(Join(args)), up, down, Text("Voting started", <<>>))

\* MUCBot._vote_start
_vote_start(subject, up, down, args) ==
    IF Truthy(subject)
    THEN Ret(subject, up, down, Text("A vote is already running", <<>>))
    ELSE IF args = <<>>
    THEN Ret(subject, up, down, Text("No subject given. Use vstart <subject>", <<>>))
    ELSE Ret(Some(Join(args)), up, down, Text("Voting started", <<>>))

\* _vote_up without the removal from _votes_down.
_vote_up_no_remove(subject, up, down, user) ==
    IF ~Truthy(subject)
    THEN Ret(subject, up, down, Text(NO_VOTINGS_MESSAGE, <<>>))
    ELSE IF user \in up
    THEN Ret(subject, up, down, Text("You already voted {}", <<user>>))
    ELSE Ret(subject, up \cup {user}, down, Text("{} voted up", <<user>>))

\* _vote_up without the check for a vote already cast.
_vote_up_again(subject, up, down, user) ==
    IF ~Truthy(subject)
    THEN Ret(subject, up, down, Text(NO_VOTINGS_MESSAGE, <<>>))
    ELSE Ret(subject, up \cup {user}, down \ {user}, Text("{} voted up", <<user>>))

\* MUCBot._vote_up; user is msg['from'].resource
_vote_up(subject, up, down, user) ==
    IF ~Truthy(subject)
    THEN Ret(subject, up, down, Text(NO_VOTINGS_MESSAGE, <<>>))
    ELSE IF user \in up
    THEN Ret(subject, up, down, Text("You already voted {}", <<user>>))
    ELSE Ret(subject, up \cup {user}, down \ {user}, Text("{} voted up", <<user>>))

\* _vote_down without the removal from _votes_up.
_vote_down_no_remove(subject, up, down, user) ==
    IF ~Truthy(subject)
    THEN Ret(subject, up, down, Text(NO_VOTINGS_MESSAGE, <<>>))
    ELSE IF user \in down
    THEN Ret(subject, up, down, Text("You already voted down", <<>>))
    ELSE Ret(subject, up, down \cup {user}, Text("{} voted down", <<user>>))

\* MUCBot._vote_down
_vote_down(subject, up, down, user) ==
    IF ~Truthy(subject)
    THEN Ret(subject, up, down, Text(NO_VOTINGS_MESSAGE, <<>>))
    ELSE IF user \in down
    THEN Ret(subject, up, down, Text("You already voted down", <<>>))
    ELSE Ret(subject, up \ {user}, down \cup {user}, Text("{} voted down", <<user>>))

\* _vote_stat with the two counts in each other's place.
_vote_stat_swapped(subject, up, down) ==
    IF Truthy(subject)
    THEN Ret(subject, up, down,
             Text("Subject: \"{}\". Votes up: {:d}. Votes down: {:d}",
                  <<subject[1], Cardinality(down), Cardinality(up)>>))
    ELSE Ret(subject, up, down, Text(NO_VOTINGS_MESSAGE, <<>>))

\* _vote_stat without the check of the subject.
_vote_stat_unchecked(subject, up, down) ==
    Ret(subject, up, down,
        Text("Subject: \"{}\". Votes up: {:d}. Votes down: {:d}",
             <<IF subject = None THEN <<>> ELSE subject[1],
               Cardinality(up), Cardinality(down)>>))

\* MUCBot._vote_stat
_vote_stat(subject, up, down) ==
    IF Truthy(subject)
    THEN Ret(subject, up, down,
             Text("Subject: \"{}\". Votes up: {:d}. Votes down: {:d}",
                  <<subject[1], Cardinality(up), Cardinality(down)>>))
    ELSE Ret(subject, up, down, Text(NO_VOTINGS_MESSAGE, <<>>))

\* _vote_end that forgets to clear _votes_down.
_vote_end_keeps_down(subject, up, down) ==
    IF ~Truthy(subject)
    THEN Ret(subject, up, down, Text(NO_VOTINGS_MESSAGE, <<>>))
    ELSE Ret(None, {}, down,
             Text("Voting \"{}\" ended. {:d} votes up. {:d} votes down",
                  <<subject[1], Cardinality(up), Cardinality(down)>>))

\* _vote_end that builds its result after clearing the sets.
_vote_end_counts_late(subject, up, down) ==
    IF ~Truthy(subject)
    THEN Ret(subject, up, down, Text(NO_VOTINGS_MESSAGE, <<>>))
    ELSE Ret(None, {}, {},
             Text("Voting \"{}\" ended. {:d} votes up. {:d} votes down",
                  <<subject[1], 0, 0>>))

\* MUCBot._vote_end
_vote_end(subject, up, down) ==
    IF ~Truthy(subject)
    THEN Ret(subject, up, down, Text(NO_VOTINGS_MESSAGE, <<>>))
    ELSE Ret(None, {}, {},
             Text("Voting \"{}\" ended. {:d} votes up. {:d} votes down",
                  <<subject[1], Cardinality(up), Cardinality(down)>>))

\* ------------------------------------------------------------- help
\* The first line of each handler's documentation string (inspect.getdoc);
\* every handler of the class has one.
ShortHelp ==
    [_help |-> "Returns a help string containing all commands",
     _chuck_norris |-> "Displays a random Chuck Norris joke from http://icndb.com",
     _shorten_url |-> "Shorten a URL with the http://kurzma.ch URL shortener",
     _vote_start |-> "Starts a voting",
     _vote_up |-> "Vote up for the current voting",
     _vote_down |-> "Vote down for the current voting",
     _vote_stat |-> "Displays statistics for the current voting",
     _vote_end |-> "Ends the current voting and shows the result",
     _slap |-> "Slaps the given user",
     _meal |-> "Displays a 'enjoy your meal' message",
     _hug |-> "Hugs the given user",
     _kiss |-> "Kisses the given user",
     _wikipedia |-> "Displays a random page from the german Wikipedia",
     _taunt |-> "Taunts the given user"]

\* The command names in the order Python's string comparison gives them.
AlphaOrder ==
    <<"chuck", "help", "hug", "kiss", "meal", "slap", "surl", "taunt",
      "vdown", "vend", "vstart", "vstat", "vup", "wiki">>

\* The registry's keys in the order of registration, unsorted.
RegistrationOrder(reg) ==
    SelectSeq(<<"help", "chuck", "surl", "vstart", "vup", "vdown", "vend",
                "vstat", "slap", "meal", "hug", "kiss", "wiki", "taunt">>,
              LAMBDA k : k \in DOMAIN reg)

\* sorted(cmds.keys())
SortedKeys(reg) == SelectSeq(AlphaOrder, LAMBDA k : k \in DOMAIN reg)

\* The lines the loop of _help appends: one per command, help itself and
\* the commands without documentation skipped.
HelpLines(reg) ==
    LET Listed(k) == ~(k = "help" \/ ShortHelp[reg[k]] = "")
        keys == SelectSeq(SortedKeys(reg), Listed)
    IN  [i \in 1..Len(keys) |-> <<CMD_PREFIX, keys[i], ShortHelp[reg[keys[i]]]>>]

\* The fixed entries of docs: the heading, the usage hint, the source line.
HEADING == <<"Available commands:">>
BOTTOM == <<"Type !help <command name> to get more info about that specific command.">>
SRC == <<"Source code available at http://kurzma.ch/botsrc">>

\* MUCBot._help: the reply is docs joined by line separators; docs is kept
\* as the sequence of its entries.
_help(subject, up, down, msg_type, args) ==
    LET reg == RegistryOf(msg_type) IN
    IF ~Bound(msg_type)
    THEN Raise(subject, up, down, "UnboundLocalError")
    ELSE IF args # <<>>
    THEN IF Len(args) > 1 \/ ~InRegistry(args[1], reg)
         THEN Ret(subject, up, down, NoValue)
         ELSE Ret(subject, up, down,
                  Text("os.linesep.join(docs)",
                       <<<< <<"inspect.getdoc", reg[args[1][1]]>>, SRC >>>>))
    ELSE Ret(subject, up, down,
             Text("os.linesep.join(docs)",
                  <<<<HEADING>> \o HelpLines(reg) \o <<BOTTOM, SRC>>>>))

\* --------------------------------------------------------------- fetchers
\* What an HTTP call can come to: the request itself fails (requests.get
\* raises), the server answers with a status other than 200 and a body that
\* is no JSON, answers 200 with a body that is no JSON, answers 200 with
\* JSON that lacks the keys read, or answers as documented.
NetOutcomes == {"ok", "conn_error", "bad_status", "not_json", "bad_shape"}

\* The endpoints the fetchers call.
ICNDB == "http://api.icndb.com/jokes/random"
SURL_API == "self._surl_api"
FEATURED_FEED == "https://de.wikipedia.org/w/api.php?action=featuredfeed&feed=featured"
WIKI_API == "http://de.wikipedia.org/w/api.php"

\* _shorten_url that sends its request before it looks at its arguments.
_shorten_url_request_first(subject, up, down, args, net) ==
    After(SURL_API,
          IF net = "conn_error" THEN Raise(subject, up, down, "ConnectionError")
          ELSE IF args = <<>>
          THEN Ret(subject, up, down, Text("You must provide a URL to shorten", <<>>))
          ELSE IF net = "bad_status"
          THEN Ret(subject, up, down, Text("Something went wrong :(", <<>>))
          ELSE IF net = "not_json" THEN Raise(subject, up, down, "ValueError")
          ELSE IF net = "bad_shape" THEN Raise(subject, up, down, "KeyError")
          ELSE Ret(subject, up, down, Text("{title}: {shorturl}", <<args>>)))

\* MUCBot._shorten_url
_shorten_url(subject, up, down, args, net) ==
    IF args = <<>>
    THEN Ret(subject, up, down, Text("You must provide a URL to shorten", <<>>))
    ELSE After(SURL_API,
          IF net = "conn_error" THEN Raise(subject, up, down, "ConnectionError")
          ELSE IF net = "bad_status"
          THEN Ret(subject, up, down, Text("Something went wrong :(", <<>>))
          ELSE IF net = "not_json" THEN Raise(subject, up, down, "ValueError")
          ELSE IF net = "bad_shape" THEN Raise(subject, up, down, "KeyError")
          ELSE Ret(subject, up, down, Text("{title}: {shorturl}", <<args>>)))

\* MUCBot._chuck_norris
_chuck_norris(subject, up, down, args, net) ==
    IF args # <<>> /\ Len(args) # 2
    THEN Ret(subject, up, down,
             Text("You must append a firstname *and* a lastname", <<>>))
    ELSE After(ICNDB,
          IF net = "conn_error" THEN Raise(subject, up, down, "ConnectionError")
          ELSE IF net \in {"bad_status", "not_json"}
          THEN Raise(subject, up, down, "ValueError")
          ELSE IF net = "bad_shape" THEN Raise(subject, up, down, "KeyError")
          ELSE Ret(subject, up, down, Text("{joke}", <<args>>)))

\* MUCBot._wikipedia: net is the outcome of its own request (the featured
\* feed or the random-page query), net2 that of the shortener it calls.
\* feedparser.parse does not raise: a feed it could not fetch or read has no
\* items, and feed['items'][-1] raises IndexError.
_wikipedia(subject, up, down, args, net, net2) ==
    IF \E i \in 1..Len(args) : args[i] = <<"today">>
    THEN After(FEATURED_FEED,
          IF net # "ok"
          THEN Raise(subject, up, down, "IndexError")
          ELSE _shorten_url(subject, up, down, <<<<"link">>>>, net2))
    ELSE After(WIKI_API,
          IF net = "conn_error" THEN Raise(subject, up, down, "ConnectionError")
          ELSE IF net \in {"bad_status", "not_json"}
          THEN Raise(subject, up, down, "ValueError")
          ELSE IF net = "bad_shape" THEN Raise(subject, up, down, "KeyError")
          ELSE _shorten_url(subject, up, down, <<<<"fullurl">>>>, net2))

\* ------------------------------------------------- static-template handlers
\* The template drawn from the file is not modelled: the reply records the
\* text substituted into it.
\* MUCBot._slap
_slap(subject, up, down, args) ==
    IF Join(args) = <<>>
    THEN Ret(subject, up, down, Text("You have to provide a nick name", <<>>))
    ELSE Ret(subject, up, down, Text("/me {slap}", <<Join(args)>>))

\* MUCBot._meal
_meal(subject, up, down) == Ret(subject, up, down, Text("Guten Appetit", <<>>))

\* MUCBot._hug
_hug(subject, up, down, args) ==
    IF args # <<>>
    THEN Ret(subject, up, down, Text("/me hugs {}", <<Join(args)>>))
    ELSE Ret(subject, up, down, Text("Who should I hug?", <<>>))

\* MUCBot._kiss
_kiss(subject, up, down, args) ==
    IF args = <<>>
    THEN Ret(subject, up, down, Text("Who should I kiss?", <<>>))
    ELSE IF Len(args) = 1
    THEN Ret(subject, up, down, Text("/me kisses {} :-*", <<args[1]>>))
    ELSE IF Len(args) = 2
    THEN Ret(subject, up, down,
             Text("/me kisses {} on the {} :-*", <<args[1], args[2]>>))
    ELSE Ret(subject, up, down, Text("Too many arguments", <<>>))

\* MUCBot._taunt
_taunt(subject, up, down, args) ==
    IF args # <<>>
    THEN Ret(subject, up, down, Text("{joke}", <<Join(args) \o <<"'s">> >>))
    ELSE Ret(subject, up, down, Text("{joke}", <<<<"Deine">>>>))

\* ------------------------------------------------------------ dispatcher
\* cmds[cmd](msg, *args): the call of the handler bound to a command.
Call(handler, subject, up, down, msg, args, net, net2) ==
    CASE handler = "_help" -> _help(subject, up, down, msg.type, args)
      [] handler = "_chuck_norris" -> _chuck_norris(subject, up, down, args, net)
      [] handler = "_shorten_url" -> _shorten_url(subject, up, down, args, net)
      [] handler = "_wikipedia" -> _wikipedia(subject, up, down, args, net, net2)
      [] handler = "_taunt" -> _taunt(subject, up, down, args)
      [] handler = "_vote_start" -> _vote_start(subject, up, down, args)
      [] handler = "_vote_up" -> _vote_up(subject, up, down, msg.from.resource)
      [] handler = "_vote_down" -> _vote_down(subject, up, down, msg.from.resource)
      [] handler = "_vote_stat" -> _vote_stat(subject, up, down)
      [] handler = "_vote_end" -> _vote_end(subject, up, down)
      [] handler = "_slap" -> _slap(subject, up, down, args)
      [] handler = "_meal" -> _meal(subject, up, down)
      [] handler = "_hug" -> _hug(subject, up, down, args)
      [] handler = "_kiss" -> _kiss(subject, up, down, args)

\* An address without its resource (JID.bare); resource 0 stands for none.
Bare(jid) == [bare |-> jid.bare, resource |-> 0]

\* A stanza handed to the transport.
Stanza(to, type, body) == [to |-> to, type |-> type, body |-> body]

\* The tail of message() without the branch for help: in a room every
\* reply goes to the room.
Route_help_to_room(msg, cmd, resp) ==
    IF msg.type \in DirectTypes
    THEN <<Stanza(msg.from, msg.type, resp)>>
    ELSE IF msg.type = GroupType
    THEN <<Stanza(Bare(msg.from), msg.type, resp)>>
    ELSE <<>>

\* The tail of message() answering every direct message as a chat message.
Route_reply_as_chat(msg, cmd, resp) ==
    IF msg.type \in DirectTypes
    THEN <<Stanza(msg.from, "chat", resp)>>
    ELSE IF msg.type = GroupType
    THEN IF cmd = <<"help">>
         THEN <<Stanza(msg.from, "chat", resp)>>
         ELSE <<Stanza(Bare(msg.from), msg.type, resp)>>
    ELSE <<>>

\* The tail of message(): where the handler's return value is sent.
\* msg.reply(resp) answers the sender with the type of the message.
Route(msg, cmd, resp) ==
    IF msg.type \in DirectTypes
    THEN <<Stanza(msg.from, msg.type, resp)>>
    ELSE IF msg.type = GroupType
    THEN IF cmd = <<"help">>
         THEN <<Stanza(msg.from, "chat", resp)>>
         ELSE <<Stanza(Bare(msg.from), msg.type, resp)>>
    ELSE <<>>

\* body.strip().split(' ')
ParseArgs(body) == SplitSpace(Strip(body))

\* The vote session as three fields.
Session(subject, up, down) == [subject |-> subject, up |-> up, down |-> down]

\* The record of one call of message(): the message's type and sender, the
\* vote session as the call found it, what it parsed, whether a handler was
\* invoked, what it returned, the exception that left message() ("" for a
\* normal return), the stanzas sent and the HTTP requests made.
Outcome(msg, pre, prefixed, cmd, args, invoked, resp, raised, sent, http) ==
    [type |-> msg.type, from |-> msg.from, pre |-> pre, prefixed |-> prefixed,
     cmd |-> cmd, args |-> args, invoked |-> invoked, resp |-> resp,
     raised |-> raised, sent |-> sent, http |-> http]

\* MUCBot.message: the vote session and the outcome it leaves.
Dispatch(subject, up, down, msg, net, net2) ==
    LET cmd_args == ParseArgs(msg.body)
        cmd == DropFirst(cmd_args[1], 1)
        args == Tail(cmd_args)
        reg == RegistryOf(msg.type)
        r == Call(reg[cmd[1]], subject, up, down, msg, args, net, net2)
        pre == Session(subject, up, down)
        Same(o) == [subject |-> subject, up |-> up, down |-> down, last |-> o]
    IN
    IF ~StartsWith(msg.body, CMD_PREFIX)
    THEN Same(Outcome(msg, pre, FALSE, <<>>, <<>>, FALSE, NoValue, "", <<>>, <<>>))
    ELSE IF ~Bound(msg.type)
    THEN Same(Outcome(msg, pre, TRUE, cmd, args, FALSE, NoValue,
                      "UnboundLocalError", <<>>, <<>>))
    ELSE IF ~InRegistry(cmd, reg)
    THEN Same(Outcome(msg, pre, TRUE, cmd, args, FALSE, NoValue, "", <<>>, <<>>))
    ELSE [subject |-> r.subject, up |-> r.up, down |-> r.down,
          last |-> Outcome(msg, pre, TRUE, cmd, args, TRUE, r.resp, r.raised,
                           IF r.raised = "" THEN Route(msg, cmd, r.resp) ELSE <<>>,
                           r.http)]

\* --------------------------------------------------------------- inputs
Nicks == 1..NumNicks
MUC_ROOM == "room@conference"
USER == "user@server"

VoteNames == {"vstart", "vup", "vdown", "vstat", "vend"}
FetchNames == {"chuck", "surl"}
PlainNames == {"taunt", "slap", "meal", "hug", "kiss"}
UnknownNames == {"bogus", "HELP", "Vup"}
OtherTypes == {"headline", "error"}
KnownTypes == DirectTypes \cup {GroupType}

\* The argument lists of at most MaxArgs words drawn from W.
ArgLists(W) == UNION {[1..n -> W] : n \in 0..MaxArgs}
ShortArgs == {<<>>, <<"X">>}

\* "!<word> <arg> <arg> ..."
RECURSIVE Spaced(_)
Spaced(words) ==
    IF words = <<>> THEN <<>> ELSE <<" ", Head(words)>> \o Spaced(Tail(words))
Body(word, words) == <<CMD_PREFIX, word>> \o Spaced(words)

\* The sender: an occupant of the room for groupchat, a user otherwise.
From(type, n) ==
    [bare |-> IF type = GroupType THEN MUC_ROOM ELSE USER, resource |-> n]
Msg(type, n, body) == [type |-> type, from |-> From(type, n), body |-> body]

\* A message event together with what the HTTP calls of its handler, if it
\* makes any, come to.
Event(msg, net, net2) == [msg |-> msg, net |-> net, net2 |-> net2]
NoNet(msgs) == {Event(m, "ok", "ok") : m \in msgs}

\* Bodies that are no "!<word> <arg> ..." line: no prefix, a prefix alone or
\* not in front, blanks at the end, two spaces or a tab between the words.
OddVoteBodies ==
    {<<"vup">>, <<"!", "vstart", " ">>, <<"!", "vstart", " ", "\t">>,
     <<"!", "vstart", " ", " ", "X">>, <<"!", "vup", "\t", "X">>,
     <<"!", "vend", " ", " ">>, <<"!", "Vup">>}
OddBodies ==
    OddVoteBodies \cup
    {<<>>, <<" ", "!", "vup">>, <<"!">>, <<"!", " ", "vup">>,
     <<"!", "help", " ", " ", "vup">>, <<"!", "help", "\t">>}

\* The events of the vote session: the five voting commands in the room from
\* every nickname, the same names sent directly, and a few other messages.
VoteEvents ==
    NoNet({Msg(GroupType, n, Body(c, a)) :
              n \in Nicks, c \in VoteNames, a \in ArgLists({"X"})}
          \cup {Msg(GroupType, 1, b) : b \in OddVoteBodies}
          \cup {Msg("chat", 1, Body(c, <<>>)) : c \in VoteNames}
          \cup {Msg("headline", 1, Body("vend", <<>>)),
                Msg(GroupType, 1, Body("help", <<>>)),
                Msg(GroupType, 1, Body("meal", <<>>))})

\* The events of the dispatcher: every command and some unknown names in
\* every message type, with every outcome of the HTTP calls.
DispatchEvents ==
    NoNet({Msg(t, 1, Body(c, a)) :
              t \in KnownTypes, c \in VoteNames \cup PlainNames \cup UnknownNames,
              a \in ShortArgs}
          \cup {Msg(t, n, Body("help", a)) :
              t \in KnownTypes, n \in Nicks, a \in ArgLists({"X", "vup"})}
          \cup {Msg(t, 1, Body(c, <<>>)) :
              t \in OtherTypes, c \in DOMAIN muc_cmds \cup UnknownNames}
          \cup {Msg(t, 1, b) : t \in {"chat", GroupType, "error"}, b \in OddBodies})
    \cup {Event(Msg(t, 1, Body(c, a)), net, "ok") :
              t \in KnownTypes, c \in FetchNames, a \in ArgLists({"X"}),
              net \in NetOutcomes}
    \cup {Event(Msg(t, 1, Body("wiki", a)), e[1], e[2]) :
              t \in KnownTypes, a \in {<<>>, <<"today">>},
              e \in {x \in NetOutcomes \X NetOutcomes : x[1] = "ok" \/ x[2] = "ok"}}

\* ------------------------------------------------- handlers step by step
\* The vote handlers one statement at a time, for invocations that may
\* overlap.  An invocation holds the id of its job, the line it is at and
\* the values it has read (s, u, d); a job is a voting command from a
\* nickname.
Job(cmd, user, args) == [cmd |-> cmd, user |-> user, args |-> args]
Entry(cmd) ==
    CASE cmd = "vstart" -> 155
      [] cmd = "vup" -> 164
      [] cmd = "vdown" -> 176
      [] cmd = "vstat" -> 188
      [] cmd = "vend" -> 197
Invocation(id, cmd) == [id |-> id, pc |-> Entry(cmd), s |-> None, u |-> 0, d |-> 0]

Goto(inv, pc, S) ==
    [inv |-> [inv EXCEPT !.pc = pc], session |-> S, ret |-> FALSE, resp |-> NoValue]
Return(inv, S, resp) == [inv |-> inv, session |-> S, ret |-> TRUE, resp |-> resp]

\* str(x) of an optional text inside a format.
Shown(v) == IF v = None THEN <<"None">> ELSE v[1]

\* One statement of the handler of `job`, run by invocation inv on session S.
\* set.remove raises KeyError for a member that is no longer there.
Statement(job, inv, S) ==
    LET user == job.user
        pc == inv.pc
        no == Text(NO_VOTINGS_MESSAGE, <<>>)
    IN
    CASE pc = 155 -> IF Truthy(S.subject)
                     THEN Return(inv, S, Text("A vote is already running", <<>>))
                     ELSE Goto(inv, 157, S)
      [] pc = 157 -> IF job.args = <<>>
                     THEN Return(inv, S,
                                 Text("No subject given. Use vstart <subject>", <<>>))
                     ELSE Goto(inv, 159, S)
      [] pc = 159 -> Return(inv, [S EXCEPT !.subject = Some(Join(job.args))],
                            Text("Voting started", <<>>))
      [] pc = 164 -> IF ~Truthy(S.subject) THEN Return(inv, S, no)
                     ELSE Goto(inv, 167, S)
      [] pc = 167 -> IF user \in S.up
                     THEN Return(inv, S, Text("You already voted {}", <<user>>))
                     ELSE Goto(inv, 169, S)
      [] pc = 169 -> IF user \in S.down THEN Goto(inv, 170, S) ELSE Goto(inv, 171, S)
      [] pc = 170 -> IF user \in S.down
                     THEN Goto(inv, 171, [S EXCEPT !.down = @ \ {user}])
                     ELSE Return(inv, S, Text("raise KeyError", <<>>))
      [] pc = 171 -> Return(inv, [S EXCEPT !.up = @ \cup {user}],
                            Text("{} voted up", <<user>>))
      [] pc = 176 -> IF ~Truthy(S.subject) THEN Return(inv, S, no)
                     ELSE Goto(inv, 179, S)
      [] pc = 179 -> IF user \in S.down
                     THEN Return(inv, S, Text("You already voted down", <<>>))
                     ELSE Goto(inv, 181, S)
      [] pc = 181 -> IF user \in S.up THEN Goto(inv, 182, S) ELSE Goto(inv, 183, S)
      [] pc = 182 -> IF user \in S.up
                     THEN Goto(inv, 183, [S EXCEPT !.up = @ \ {user}])
                     ELSE Return(inv, S, Text("raise KeyError", <<>>))
      [] pc = 183 -> Return(inv, [S EXCEPT !.down = @ \cup {user}],
                            Text("{} voted down", <<user>>))
      [] pc = 188 -> IF Truthy(S.subject) THEN Goto(inv, 190, S)
                     ELSE Return(inv, S, no)
      [] pc = 190 -> Goto([inv EXCEPT !.s = S.subject], 191, S)
      [] pc = 191 -> Goto([inv EXCEPT !.u = Cardinality(S.up)], 192, S)
      [] pc = 192 -> Return(inv, S,
                            Text("Subject: \"{}\". Votes up: {:d}. Votes down: {:d}",
                                 <<Shown(inv.s), inv.u, Cardinality(S.down)>>))
      [] pc = 197 -> IF ~Truthy(S.subject) THEN Return(inv, S, no)
                     ELSE Goto(inv, 200, S)
      [] pc = 200 -> Goto([inv EXCEPT !.s = S.subject], 201, S)
      [] pc = 201 -> Goto([inv EXCEPT !.u = Cardinality(S.up)], 202, S)
      [] pc = 202 -> Goto([inv EXCEPT !.d = Cardinality(S.down)], 203, S)
      [] pc = 203 -> Goto(inv, 204, [S EXCEPT !.subject = None])
      [] pc = 204 -> Goto(inv, 205, [S EXCEPT !.up = {}])
      [] pc = 205 -> Return(inv, [S EXCEPT !.down = {}],
                            Text("Voting \"{}\" ended. {:d} votes up. {:d} votes down",
                                 <<Shown(inv.s), inv.u, inv.d>>))

\* How the constructor registers message(): add_event_handler's `threaded`
\* is left at its default, so the library's event runner calls the handler
\* itself, one queued event after the other, and starts no thread for it.
MessageThreadedOn == TRUE
MessageThreaded == FALSE

\* ---------------------------------------------------------------- state
\* The vote session, the record of the last call of message(), and the
\* event queue with its invocations (used by SpecThreads only).
VARIABLES vote_subject, votes_up, votes_down, last, th
vars == <<vote_subject, votes_up, votes_down, last, th>>

NoOutcome ==
    [type |-> "", from |-> [bare |-> "", resource |-> 0],
     pre |-> Session(None, {}, {}), prefixed |-> FALSE, cmd |-> <<>>,
     args |-> <<>>, invoked |-> FALSE, resp |-> NoValue, raised |-> "",
     sent |-> <<>>, http |-> <<>>]

\* No event queued and no invocation in progress.
Idle ==
    [pre |-> Session(None, {}, {}), jobs |-> <<>>, q |-> <<>>, run |-> {},
     resp |-> <<>>]

\* MUCBot.__init__: no vote, and no message handled yet.
Init ==
    /\ vote_subject = None
    /\ votes_up = {}
    /\ votes_down = {}
    /\ last = NoOutcome
    /\ th = Idle

\* One message event handled by message().
message(msg, net, net2) ==
    LET d == Dispatch(vote_subject, votes_up, votes_down, msg, net, net2) IN
    /\ vote_subject' = d.subject
    /\ votes_up' = d.up
    /\ votes_down' = d.down
    /\ last' = d.last
    /\ UNCHANGED th

\* The vote session driven from the room.
Next == \E e \in VoteEvents : message(e.msg, e.net, e.net2)
Spec == Init /\ [][Next]_vars

\* The dispatcher under every kind of message.
NextDispatch == \E e \in DispatchEvents : message(e.msg, e.net, e.net2)
SpecDispatch == Init /\ [][NextDispatch]_vars

\* ------------------------------------------- two commands at the same time
\* The sessions the bot can be in: no vote, or a vote on "X" with any two
\* disjoint sets of voters.
Sessions ==
    {Session(None, {}, {})}
    \cup {Session(Some(<<"X">>), p[1], p[2]) :
             p \in {x \in (SUBSET Nicks) \X (SUBSET Nicks) : x[1] \cap x[2] = {}}}

\* The voting commands two users can send.
Jobs ==
    {Job("vstart", 1, a) : a \in {<<>>, <<<<"X">>>>, <<<<"Y">>>>}}
    \cup {Job(c, 1, <<>>) : c \in {"vstat", "vend"}}
    \cup {Job(c, n, <<>>) : c \in {"vup", "vdown"}, n \in Nicks}

\* Two voting commands have arrived together and are both in the event
\* queue; the session is any the bot can be in.
InitThreads ==
    /\ \E S \in Sessions, j1 \in Jobs, j2 \in Jobs :
          /\ vote_subject = S.subject
          /\ votes_up = S.up
          /\ votes_down = S.down
          /\ th = [pre |-> S, jobs |-> <<j1, j2>>, q |-> <<1, 2>>, run |-> {},
                   resp |-> <<NoValue, NoValue>>]
    /\ last = NoOutcome

\* The event runner takes the next event from the queue and calls message()
\* for it: at once in a thread of its own if the handler is registered as
\* threaded, and otherwise only when the call before has returned.
Begin ==
    /\ th.q # <<>>
    /\ MessageThreaded \/ th.run = {}
    /\ th' = [th EXCEPT !.q = Tail(@),
                        !.run = @ \cup {Invocation(Head(th.q), th.jobs[Head(th.q)].cmd)}]
    /\ UNCHANGED <<vote_subject, votes_up, votes_down, last>>

\* An invocation runs its next statement.
Step ==
    \E inv \in th.run :
        LET r == Statement(th.jobs[inv.id], inv, Session(vote_subject, votes_up, votes_down)) IN
        /\ vote_subject' = r.session.subject
        /\ votes_up' = r.session.up
        /\ votes_down' = r.session.down
        /\ th' = [th EXCEPT !.run = IF r.ret THEN @ \ {inv}
                                    ELSE (@ \ {inv}) \cup {r.inv},
                            !.resp[inv.id] = IF r.ret THEN r.resp ELSE @]
        /\ UNCHANGED last

NextThreads == Begin \/ Step
SpecThreads == InitThreads /\ [][NextThreads]_vars

\* ------------------------------------------------------------ properties
\* The session the last call of message() left.
Now == Session(vote_subject, votes_up, votes_down)

\* The last call invoked the handler of this command, received in the room.
Ran(name) == last.invoked /\ last.type = GroupType /\ last.cmd = <<name>>

\* A text with no character other than blanks.
Blank(t) == \A i \in 1..Len(t) : t[i] \in Blanks

\* C1: no nickname is a member of both voters_up and voters_down, in every
\* reachable state of the vote session.
C1_Disjoint == votes_up \cap votes_down = {}

\* A nickname that had voted up has just voted down, beside another voter.
C1_Witness ==
    /\ Ran("vdown")
    /\ last.from.resource \in last.pre.up
    /\ last.from.resource \in votes_down
    /\ votes_up # {}

\* C2: whenever the vote subject is unset, voters_up and voters_down are
\* both empty.
C2_VotesOnlyWhileActive == vote_subject = None => votes_up = {} /\ votes_down = {}

\* A vote with voters on both sides has just been ended.
C2_Witness ==
    /\ Ran("vend")
    /\ last.pre.up # {}
    /\ last.pre.down # {}
    /\ vote_subject = None

\* C4: start succeeds exactly when no vote is active and the subject given
\* is not blank; with a vote active it fails as already running whatever the
\* subject; with no vote and a blank subject it fails as an empty subject;
\* a failing start changes nothing.
C4_Start ==
    Ran("vstart") =>
        LET active == last.pre.subject # None
            given == Join(last.args)
            ok == last.resp.text = "Voting started"
        IN  /\ last.raised = ""
            /\ ok <=> (~active /\ ~Blank(given))
            /\ active => last.resp.text = "A vote is already running"
            /\ (~active /\ Blank(given)) =>
                   last.resp.text = "No subject given. Use vstart <subject>"
            /\ ok => Now = Session(Some(given), last.pre.up, last.pre.down)
            /\ ~ok => Now = last.pre

\* A start with a subject was refused because a vote is running.
C4_Witness ==
    /\ Ran("vstart")
    /\ last.args # <<>>
    /\ last.resp.text = "A vote is already running"

\* C5: during an active vote, a vote down leaves the voter in voters_down
\* and not in voters_up, and a vote up leaves the voter in voters_up and not
\* in voters_down, whatever the voter's membership before.
C5_VoteLands ==
    /\ (Ran("vdown") /\ last.pre.subject # None) =>
           last.from.resource \in votes_down \ votes_up
    /\ (Ran("vup") /\ last.pre.subject # None) =>
           last.from.resource \in votes_up \ votes_down

\* A nickname that had voted up has just voted down.
C5_Witness ==
    /\ Ran("vdown")
    /\ last.from.resource \in last.pre.up
    /\ last.from.resource \in votes_down

\* An end during an active vote reports what the call found and clears.
EndReports ==
    (Ran("vend") /\ last.pre.subject # None) =>
        /\ last.resp = Text("Voting \"{}\" ended. {:d} votes up. {:d} votes down",
                            <<last.pre.subject[1], Cardinality(last.pre.up),
                              Cardinality(last.pre.down)>>)
        /\ Now = Session(None, {}, {})

\* A stat handled right after such an end gets the no-active-vote message.
StatAfterEnd ==
    (Ran("vend") /\ last.pre.subject # None /\ Ran("vstat")') =>
        last'.resp = Text(NO_VOTINGS_MESSAGE, <<>>)

\* C6: end during an active vote returns the subject and the two counts as
\* they were before the call and leaves the subject unset and both sets
\* empty; a stat right after it fails with the no-active-vote message.
C6_End == []EndReports /\ [][StatAfterEnd]_vars

\* The vote on "X" with one voter up and one down has just been ended.
C6_Witness ==
    /\ Ran("vend")
    /\ last.resp.text = "Voting \"{}\" ended. {:d} votes up. {:d} votes down"
    /\ last.resp.args = << <<"X">>, 1, 1 >>

\* C7: with no vote active, vote up, vote down, stat and end each fail
\* with the no-active-vote message and leave the session unchanged.
C7_NoActiveVote ==
    ((Ran("vup") \/ Ran("vdown") \/ Ran("vstat") \/ Ran("vend"))
        /\ last.pre.subject = None) =>
        /\ last.resp = Text(NO_VOTINGS_MESSAGE, <<>>)
        /\ Now = last.pre

\* A vote up arrived while no vote was active.
C7_Witness == Ran("vup") /\ last.pre.subject = None

\* The message types the dispatcher recognizes, and the command names of the
\* two registries as the command surface lists them.
Recognized == {"normal", "chat", "groupchat"}
DirectSurface == {"help", "chuck", "surl", "wiki", "taunt"}
GroupSurface ==
    {"help", "chuck", "surl", "vstart", "vup", "vdown", "vstat", "vend",
     "slap", "meal", "hug", "kiss", "wiki", "taunt"}
Registered(cmd, type) ==
    /\ Len(cmd) = 1
    /\ cmd[1] \in (IF type = "groupchat" THEN GroupSurface ELSE DirectSurface)

\* C8: a message that starts with the prefix and whose type is none of
\* normal, chat and groupchat is ignored: no exception, no reply, no change
\* of state.
C8_OtherTypeIgnored ==
    (last.prefixed /\ last.type \notin Recognized) =>
        /\ last.raised = ""
        /\ last.sent = <<>>
        /\ Now = last.pre

\* C9: when the handler returns no value, no message is sent.
C9_NoValueNoSend ==
    (last.invoked /\ last.raised = "" /\ last.resp = NoValue) => last.sent = <<>>

\* C10: a prefixed message of a recognized type whose command name is not
\* in the registry of its channel produces no reply, no exception and no
\* change of state.
C10_UnknownCommand ==
    (last.prefixed /\ last.type \in Recognized /\ ~Registered(last.cmd, last.type)) =>
        /\ ~last.invoked
        /\ last.raised = ""
        /\ last.sent = <<>>
        /\ Now = last.pre

\* A name that differs from a command only in letter case arrived in the
\* room while a vote was active.
C10_Witness ==
    /\ last.prefixed
    /\ last.type = "groupchat"
    /\ last.cmd = <<"Vup">>
    /\ last.pre.subject # None

\* The handler of a job run as one call on session S.
Atomic(job, S) ==
    Call(muc_cmds[job.cmd], S.subject, S.up, S.down,
         Msg(GroupType, job.user, <<>>), job.args, "ok", "ok")

\* Both commands have returned, and the session and the two replies are
\* those of running job a and then job b, each as one call.
SerialOrder(a, b) ==
    LET ra == Atomic(th.jobs[a], th.pre)
        rb == Atomic(th.jobs[b], Session(ra.subject, ra.up, ra.down))
    IN  /\ Now = Session(rb.subject, rb.up, rb.down)
        /\ th.resp[a].text = ra.resp.text /\ th.resp[a].args = ra.resp.args
        /\ th.resp[b].text = rb.resp.text /\ th.resp[b].args = rb.resp.args

BothReturned == th.jobs # <<>> /\ th.q = <<>> /\ th.run = {}

\* C3: of two voting commands dispatched together, at most one is inside
\* its handler at any time, and when both have returned the session and the
\* replies are those of one of the two serial orders; no voter is left
\* recorded while the subject is unset.
C3_Atomic ==
    /\ Cardinality(th.run) <= 1
    /\ BothReturned =>
          /\ SerialOrder(1, 2) \/ SerialOrder(2, 1)
          /\ vote_subject = None => votes_up = {} /\ votes_down = {}

\* A vote up and an end of the vote arrived together during a vote, and
\* both have returned.
C3_Witness ==
    /\ BothReturned
    /\ th.pre.subject # None
    /\ th.jobs[1].cmd = "vup"
    /\ th.jobs[2].cmd = "vend"

\* ------------------------------------------------------- reply routing

\* The entries of docs the reply of help was joined from.
Docs(resp) == resp.args[1]

\* The command names on the listing lines of docs, in their order.
Listed(docs) ==
    LET lines == SelectSeq(docs, LAMBDA d : Len(d) = 3)
    IN  [i \in 1..Len(lines) |-> lines[i][2]]

HelpInRoom == last.invoked /\ last.type = GroupType /\ last.cmd = <<"help">>

\* C11: the reply to a help command received in a room is sent once, as a
\* chat message to the full address of the requester, never to the room,
\* and the list it carries is that of the Group registry.
C11_HelpPrivately ==
    (HelpInRoom /\ last.raised = "") =>
        /\ last.sent = <<Stanza(last.from, "chat", last.resp)>>
        /\ last.sent[1].to # Bare(last.from)
        /\ (last.args = <<>>) =>
              \E i \in 1..Len(Listed(Docs(last.resp))) :
                  Listed(Docs(last.resp))[i] = "vstart"

\* Help without arguments was asked in a room and answered.
C11_Witness ==
    /\ HelpInRoom
    /\ last.args = <<>>
    /\ last.sent # <<>>
    /\ last.sent[1].type = "chat"

\* C12: the reply text of a command other than help goes, for a direct
\* message, to the full address of the sender with the type of the message,
\* and for a room message to the bare address of the room as groupchat;
\* nothing else is sent.
C12_ReplyRouting ==
    (last.invoked /\ last.raised = "" /\ last.cmd # <<"help">>
                  /\ last.resp.text # NoValue.text) =>
        /\ last.type \in DirectTypes =>
              last.sent = <<Stanza(last.from, last.type, last.resp)>>
        /\ last.type = GroupType =>
              last.sent = <<Stanza(Bare(last.from), "groupchat", last.resp)>>

\* A command sent as a normal message was answered as a normal message.
C12_Witness ==
    /\ last.invoked /\ last.cmd = <<"taunt">> /\ last.type = "normal"
    /\ last.sent # <<>>
    /\ last.sent[1].type = "normal"

\* ------------------------------------------------------------ fetchers

Fetched == last.invoked /\ last.cmd[1] \in {"chuck", "surl", "wiki"}

\* C13: a content fetcher returns a text, the reply or a failure string,
\* whatever the outcome of its external call; no exception leaves it.
C13_FetcherReturnsText ==
    Fetched => last.raised = "" /\ last.resp.text # NoValue.text

\* ---------------------------------------------------------------- help

\* The commands of each surface other than help, in alphabetical order.
GroupListing ==
    <<"chuck", "hug", "kiss", "meal", "slap", "surl", "taunt",
      "vdown", "vend", "vstart", "vstat", "vup", "wiki">>
DirectListing == <<"chuck", "surl", "taunt", "wiki">>

HelpList == last.invoked /\ last.cmd = <<"help">> /\ last.args = <<>>
                         /\ last.raised = ""

\* C14: help without arguments lists every command of the registry of its
\* channel once, in alphabetical order, help itself left out, each line
\* with the prefix, the name and a short help, and the usage hint follows
\* the last line of the list.
C14_HelpListing ==
    HelpList =>
        LET docs == Docs(last.resp)
            n == Len(Listed(docs))
        IN  /\ Listed(docs) = (IF last.type = GroupType THEN GroupListing
                                                         ELSE DirectListing)
            /\ Len(docs) = n + 3
            /\ docs[1] = HEADING
            /\ \A i \in 2..(n + 1) :
                  /\ Len(docs[i]) = 3
                  /\ docs[i][1] = CMD_PREFIX
                  /\ docs[i][3] # ""
            /\ docs[n + 2] = BOTTOM

\* Help without arguments was answered in the room with its thirteen lines.
C14_Witness ==
    /\ HelpList
    /\ last.type = GroupType
    /\ Len(Listed(Docs(last.resp))) = 13

\* ------------------------------------------------------------ shortener

\* C15: surl without arguments returns the prompt and no HTTP request is
\* made during that dispatch; whenever a dispatch of surl has made a
\* request to the shortener, the arguments were not empty.
C15_NoRequestWithoutUrl ==
    (last.invoked /\ last.cmd = <<"surl">>) =>
        /\ last.args = <<>> =>
              /\ last.resp = Text("You must provide a URL to shorten", <<>>)
              /\ last.raised = ""
              /\ last.http = <<>>
        /\ last.http # <<>> => last.args # <<>> /\ last.http = <<SURL_API>>

\* surl was dispatched without arguments and made no request.
C15_Witness ==
    /\ last.invoked /\ last.cmd = <<"surl">>
    /\ last.args = <<>>
    /\ last.http = <<>>
    /\ last.sent # <<>>

\* --------------------------------------- a fetcher waiting for its answer
\* Two message events are in the event queue, the first for a fetcher.  A
\* call of message() waits inside requests.get / feedparser.parse until the
\* answer is there; an invocation holds the id of its event and the
\* outcomes of the requests answered so far.

\* Commands that make an HTTP request, from the first user.
FetchMsgs ==
    {Msg(t, 1, b) : t \in {"chat", GroupType},
                    b \in {Body("chuck", <<>>), Body("surl", <<"X">>),
                           Body("wiki", <<>>), Body("wiki", <<"today">>)}}

\* What another user sends meanwhile.
OtherMsgs ==
    {Msg(t, n, Body(c, <<>>)) : t \in {"chat", GroupType}, n \in Nicks \ {1},
                               c \in {"meal", "taunt", "help", "surl", "chuck", "vup"}}

InitFetch ==
    /\ \E S \in {Session(None, {}, {}), Session(Some(<<"X">>), {}, {})},
          m1 \in FetchMsgs, m2 \in OtherMsgs :
          /\ vote_subject = S.subject
          /\ votes_up = S.up
          /\ votes_down = S.down
          /\ th = [pre |-> S, jobs |-> <<m1, m2>>, q |-> <<1, 2>>, run |-> {},
                   resp |-> <<NoOutcome, NoOutcome>>]
    /\ last = NoOutcome

\* message() for event id, the requests answered so far having come to nets.
Reached(id, nets) ==
    Dispatch(vote_subject, votes_up, votes_down, th.jobs[id],
             IF Len(nets) >= 1 THEN nets[1] ELSE "ok",
             IF Len(nets) >= 2 THEN nets[2] ELSE "ok")

\* The call waits for the answer of a request not yet answered.
Waiting(id, nets) == Len(Reached(id, nets).last.http) > Len(nets)

\* The call for event id runs on from where it is: up to its next request,
\* or to its end.
Proceed(id, nets, running) ==
    LET d == Reached(id, nets) IN
    IF Waiting(id, nets)
    THEN /\ th' = [th EXCEPT !.q = IF id \in {x.id : x \in th.run} THEN @ ELSE Tail(@),
                             !.run = running \cup {[id |-> id, nets |-> nets]}]
         /\ UNCHANGED <<vote_subject, votes_up, votes_down, last>>
    ELSE /\ th' = [th EXCEPT !.q = IF id \in {x.id : x \in th.run} THEN @ ELSE Tail(@),
                             !.run = running,
                             !.resp[id] = d.last]
         /\ vote_subject' = d.subject
         /\ votes_up' = d.up
         /\ votes_down' = d.down
         /\ last' = d.last

\* The event runner takes the next event from the queue and calls
\* message() for it, under the same registration as Begin.
BeginMessage ==
    /\ th.q # <<>>
    /\ MessageThreaded \/ th.run = {}
    /\ Proceed(Head(th.q), <<>>, th.run)

\* The request an invocation waits for is answered, one way or another.
HttpResponse ==
    \E inv \in th.run, net \in NetOutcomes :
        Proceed(inv.id, Append(inv.nets, net), th.run \ {inv})

NextFetch == BeginMessage \/ HttpResponse
SpecFetch == InitFetch /\ [][NextFetch]_vars

\* C16: while a call of message() waits in the network call of a fetcher,
\* the message event of another user waiting in the queue can be dispatched.
C16_OthersNotBlocked ==
    (th.run # {} /\ th.q # <<>>) => ENABLED BeginMessage

\* ------------------------------------------------------- votes, continued

\* The nickname the last message came from.
Voter == last.from.resource

\* C17: a vote up by a nickname already among the up-voters, and a vote
\* down by one already among the down-voters, returns the already-voted
\* notice and leaves the subject and both sets as they were; a nickname is
\* counted at most once in the sum of the two counts.
C17_RepeatedVote ==
    /\ (Ran("vup") /\ Voter \in last.pre.up) =>
          /\ last.resp.text = "You already voted {}"
          /\ last.resp.args = <<Voter>>
          /\ Now = last.pre
    /\ (Ran("vdown") /\ Voter \in last.pre.down) =>
          /\ last.resp.text = "You already voted down"
          /\ Now = last.pre
    /\ Cardinality(votes_up) + Cardinality(votes_down)
          = Cardinality(votes_up \cup votes_down)

\* A nickname that had voted up voted up again, another having voted down.
C17_Witness ==
    /\ Ran("vup")
    /\ Voter \in last.pre.up
    /\ votes_down # {}

\* C19: vstat during a vote returns the subject and the sizes of the two
\* sets as they are at the call, which add up to the number of nicknames
\* that have voted, and changes nothing.
C19_Stat ==
    (Ran("vstat") /\ Truthy(last.pre.subject)) =>
        /\ last.resp.text = "Subject: \"{}\". Votes up: {:d}. Votes down: {:d}"
        /\ last.resp.args = <<last.pre.subject[1], Cardinality(last.pre.up),
                              Cardinality(last.pre.down)>>
        /\ last.resp.args[2] + last.resp.args[3]
              = Cardinality(last.pre.up \cup last.pre.down)
        /\ Now = last.pre

\* vstat was answered during a vote with more votes up than down.
C19_Witness ==
    /\ Ran("vstat")
    /\ Truthy(last.pre.subject)
    /\ Cardinality(last.pre.up) > Cardinality(last.pre.down)
    /\ last.sent # <<>>

\* ------------------------------------------------- what changes the vote

\* The last call invoked vstart, vup, vdown or vend received in the room.
VoteChanger ==
    /\ last.invoked
    /\ last.type = GroupType
    /\ last.cmd[1] \in {"vstart", "vup", "vdown", "vend"}

\* C18: the subject and the two sets change only in a dispatch of vstart,
\* vup, vdown or vend received in the room; every other dispatch (no
\* prefix, any command in a direct message, vstat, help, the other room
\* commands, whether it returns or raises) leaves them as they were.
C18_VoteFrame == ~VoteChanger => Now = last.pre

\* vup was sent as a direct message during a vote, and nothing changed.
C18_Witness ==
    /\ last.type = "chat"
    /\ last.cmd = <<"vup">>
    /\ Truthy(last.pre.subject)
    /\ Now = last.pre

\* ---------------------------------------------------------------- parsing

\* A word: a text that is not empty and holds no blank.
Word(t) == t # <<>> /\ \A i \in 1..Len(t) : t[i] \notin Blanks

\* C20: for a body with the prefix, no argument handed on is empty or holds
\* whitespace, and the command name holds no whitespace, whatever the run
\* of spaces or tabs between the words of the body.
C20_WhitespaceSplit ==
    last.prefixed =>
        /\ \A i \in 1..Len(last.cmd) : last.cmd[i] \notin Blanks
        /\ \A i \in 1..Len(last.args) : Word(last.args[i])

====
